---- MODULE Spec2Model ----
(***************************************************************************)
(* A model of package tree (src/node.go): Node.Visit builds a tree of      *)
(* nodes over a storage abstraction Fs, Node.Print renders it as indented  *)
(* text, formatBytes renders a byte count.                                 *)
(*                                                                         *)
(* Paths are sequences of component names, <<"r", "d">> standing for       *)
(* "/r/d"; every path of the model is absolute and clean.  Text is a TLA+  *)
(* string.  The box-drawing glyphs of print are written with their ASCII   *)
(* stand-ins, one character for one character: "|" for the vertical bar,   *)
(* "+" for the corner, "-" for the horizontal bar.                         *)
(***************************************************************************)
EXTENDS Integers, Sequences, FiniteSets, TLC

VARIABLES
  fs,        \* the file system behind opts.Fs: canonical path -> entry
  rootPath,  \* the path handed to New
  opts,      \* the Options value handed to Visit and Print
  root,      \* the root *Node and, nested in nodes, the whole tree
  vpaths,    \* the visited-path map every node of the tree shares
  dirs,      \* Visit's first result
  files,     \* Visit's second result
  output,    \* the writes made so far, each [sink, text], oldest first
  prints,    \* the number of Print calls that have returned
  bytes,     \* the argument of formatBytes
  result,    \* the string formatBytes returned
  pc         \* "new", "visited", "printed"; "format", "formatted"

vars == <<fs, rootPath, opts, root, vpaths, dirs, files, output, prints, bytes, result, pc>>

-----------------------------------------------------------------------------
(* Bounds *)

\* DeepLevel ranges over 0..MaxDeepLevel
MaxDeepLevel == 2
\* Print is called at most MaxPrints times on one tree
MaxPrints == 2
\* the number of links a path resolution follows before it gives up
MaxLinks == 3
\* formatBytes is applied to every count in 0..MaxSmallBytes (and to the
\* counts around each unit's threshold)
MaxSmallBytes == 40
\* ... and to every count within ThresholdSpread of a threshold
ThresholdSpread == 2

-----------------------------------------------------------------------------
(* Strings *)

Char(s, i) == SubSeq(s, i, i)

\* strings.HasPrefix
HasPrefix(s, p) == Len(s) >= Len(p) /\ SubSeq(s, 1, Len(p)) = p

HasSuffix(s, p) == Len(s) >= Len(p) /\ SubSeq(s, Len(s) - Len(p) + 1, Len(s)) = p

\* the index of the first occurrence of sep in s at or after i, 0 if none
RECURSIVE Index(_, _, _)
Index(s, sep, i) ==
  IF i + Len(sep) - 1 > Len(s) THEN 0
  ELSE IF SubSeq(s, i, i + Len(sep) - 1) = sep THEN i
  ELSE Index(s, sep, i + 1)

\* strings.Split(s, sep), for a non-empty sep
RECURSIVE Split(_, _)
Split(s, sep) ==
  LET k == Index(s, sep, 1) IN
  IF k = 0 THEN <<s>>
  ELSE <<SubSeq(s, 1, k - 1)>> \o Split(SubSeq(s, k + Len(sep), Len(s)), sep)

Upper == "ABCDEFGHIJKLMNOPQRSTUVWXYZ"
Lower == "abcdefghijklmnopqrstuvwxyz"

\* the byte order of the characters the model's names are made of
Alphabet == ".0123456789ABCDEFGHIJKLMNOPQRSTUVWXYZabcdefghijklmnopqrstuvwxyz"

Rank(c) == Index(Alphabet, c, 1)

ToLowerChar(c) ==
  LET k == Index(Upper, c, 1) IN IF k = 0 THEN c ELSE Char(Lower, k)

RECURSIVE ToLower(_)
ToLower(s) ==
  IF Len(s) = 0 THEN "" ELSE ToLowerChar(Char(s, 1)) \o ToLower(SubSeq(s, 2, Len(s)))

\* s < t on Go strings: byte-wise lexicographic
RECURSIVE StrLess(_, _)
StrLess(s, t) ==
  IF Len(t) = 0 THEN FALSE
  ELSE IF Len(s) = 0 THEN TRUE
  ELSE IF Char(s, 1) = Char(t, 1) THEN StrLess(SubSeq(s, 2, Len(s)), SubSeq(t, 2, Len(t)))
  ELSE Rank(Char(s, 1)) < Rank(Char(t, 1))

-----------------------------------------------------------------------------
(* Paths *)

Front(p) == SubSeq(p, 1, Len(p) - 1)

Last(p) == p[Len(p)]

\* filepath.Join(dir, name), for a clean dir and a plain name
Join(p, name) == Append(p, name)

\* filepath.Abs: an absolute path comes back cleaned and never fails
Abs(p) == [ok |-> TRUE, path |-> p]

\* filepath.Clean: a clean path comes back as it is
Clean(p) == p

RECURSIVE PathString(_)
PathString(p) ==
  IF p = <<>> THEN "" ELSE PathString(Front(p)) \o "/" \o Last(p)

-----------------------------------------------------------------------------
(* The storage: entries, and the operations of Fs and of the path library *)

NoEntry == [kind |-> "none", statErr |-> FALSE, listErr |-> FALSE, list |-> <<>>,
            target |-> <<>>, size |-> 0, mtime |-> 0, ctime |-> 0]

DirEntry(list) == [NoEntry EXCEPT !.kind = "dir", !.list = list]

FileEntry(size, mtime, ctime) ==
  [NoEntry EXCEPT !.kind = "file", !.size = size, !.mtime = mtime, !.ctime = ctime]

LinkEntry(target) == [NoEntry EXCEPT !.kind = "link", !.target = target]

Lookup(p) == IF p \in DOMAIN fs THEN fs[p] ELSE NoEntry

ResolveFail == [ok |-> FALSE, path |-> <<>>]

\* one step of Walk: e is the entry at p, the next component below cur
WalkStep(cur, rest, fuel, p, e) ==
  IF e.kind = "none" \/ e.statErr THEN ResolveFail
  ELSE IF e.kind = "link"
       THEN IF fuel = 0 THEN ResolveFail
            ELSE [again |-> TRUE, cur |-> <<>>, rest |-> e.target \o Tail(rest), fuel |-> fuel - 1]
  ELSE IF e.kind = "dir"
       THEN [again |-> TRUE, cur |-> p, rest |-> Tail(rest), fuel |-> fuel]
  ELSE IF Tail(rest) = <<>> THEN [ok |-> TRUE, path |-> p]
  ELSE ResolveFail

\* resolve the components rest below the canonical directory cur, following
\* every link met, the last component's too
RECURSIVE Walk(_, _, _), WalkOn(_)
Walk(cur, rest, fuel) ==
  IF rest = <<>> THEN [ok |-> TRUE, path |-> cur]
  ELSE WalkOn(WalkStep(cur, rest, fuel, Append(cur, Head(rest)), Lookup(Append(cur, Head(rest)))))

WalkOn(w) == IF "again" \in DOMAIN w THEN Walk(w.cur, w.rest, w.fuel) ELSE w

\* filepath.EvalSymlinks
EvalSymlinks(p) == Walk(<<>>, p, MaxLinks)

\* the entry p names below its resolved directory part d
EntryIn(p, d) ==
  IF p = <<>> \/ ~d.ok \/ (Front(p) # <<>> /\ Lookup(d.path).kind # "dir") THEN NoEntry
  ELSE Lookup(Append(d.path, Last(p)))

\* the entry a path names, the links of its directory part followed and its
\* last component's not
LEntry(p) == EntryIn(p, EvalSymlinks(Front(p)))

NoInfo == [name |-> "", mode |-> "none", size |-> 0, mtime |-> 0, ctime |-> 0]

\* os.FileInfo.IsDir
IsDir(fi) == fi.mode = "dir"

\* what Stat makes of the entry e found at p
StatOf(p, e) ==
  IF e.kind = "none"
  THEN [fi |-> NoInfo, ok |-> FALSE, err |-> "lstat " \o PathString(p) \o ": no such file or directory"]
  ELSE IF e.statErr
  THEN [fi |-> NoInfo, ok |-> FALSE, err |-> "lstat " \o PathString(p) \o ": permission denied"]
  ELSE [fi |-> [name |-> Last(p), mode |-> e.kind, size |-> e.size,
                mtime |-> e.mtime, ctime |-> e.ctime],
        ok |-> TRUE, err |-> ""]

\* Fs.Stat, of a storage that does not follow a link: it is os.Lstat
Stat(p) == StatOf(p, LEntry(p))

\* what ReadDir makes of the resolution d of p
ReadDirOf(p, d, e) ==
  IF ~d.ok \/ e.kind # "dir"
  THEN [names |-> <<>>, err |-> "open " \o PathString(p) \o ": not a directory"]
  ELSE IF e.listErr
  THEN [names |-> <<>>, err |-> "open " \o PathString(p) \o ": permission denied"]
  ELSE [names |-> e.list, err |-> ""]

ReadDirIn(p, d) == ReadDirOf(p, d, Lookup(d.path))

\* Fs.ReadDir
ReadDir(p) == ReadDirIn(p, EvalSymlinks(p))

ReadlinkOf(e) ==
  IF e.kind = "link" /\ ~e.statErr THEN [ok |-> TRUE, target |-> e.target]
  ELSE [ok |-> FALSE, target |-> <<>>]

\* os.Readlink
Readlink(p) == ReadlinkOf(LEntry(p))

-----------------------------------------------------------------------------
(* regexp, for the patterns of the model *)

\* regexp.Compile: an optional "(?i)", then "\." literal "$" (the name ends
\* with "." literal); any other expression, such as "(", does not compile
Compile(expr) ==
  LET fold == HasPrefix(expr, "(?i)")
      body == IF fold THEN SubSeq(expr, 5, Len(expr)) ELSE expr
  IN  IF Len(body) >= 3 /\ HasPrefix(body, "\\.") /\ HasSuffix(body, "$")
      THEN [ok |-> TRUE, fold |-> fold, suffix |-> "." \o SubSeq(body, 3, Len(body) - 1)]
      ELSE [ok |-> FALSE, fold |-> fold, suffix |-> ""]

\* Regexp.MatchString
MatchString(re, s) ==
  IF re.fold THEN HasSuffix(ToLower(s), ToLower(re.suffix)) ELSE HasSuffix(s, re.suffix)

-----------------------------------------------------------------------------
(* Nodes *)

\* New: the root node of a path; the vpaths map is the variable vpaths
New(path) ==
  [path |-> path, depth |-> 0, err |-> "", hasInfo |-> FALSE, fi |-> NoInfo, nodes |-> <<>>]

\* the child node Visit makes for an entry name of node
Child(node, name) ==
  [New(Join(node.path, name)) EXCEPT !.depth = node.depth + 1]

-----------------------------------------------------------------------------
(* Sort policies.  The comparators are those of the specification's        *)
(* section 4.2; each reads the metadata of two nodes.                      *)

ModSort(f1, f2) == f1.fi.mtime < f2.fi.mtime

CTimeSort(f1, f2) == f1.fi.ctime < f2.fi.ctime

DirSort(f1, f2) == IsDir(f1.fi) /\ ~IsDir(f2.fi)

SizeSort(f1, f2) == f1.fi.size < f2.fi.size

NameSort(f1, f2) == StrLess(f1.fi.name, f2.fi.name)

IsDigit(c) == Index("0123456789", c, 1) # 0

\* the length of the run of digits s starts with
RECURSIVE DigitRun(_)
DigitRun(s) ==
  IF Len(s) = 0 \/ ~IsDigit(Char(s, 1)) THEN 0 ELSE 1 + DigitRun(SubSeq(s, 2, Len(s)))

\* the number a run of digits writes
RECURSIVE Atoi(_)
Atoi(s) ==
  IF Len(s) = 0 THEN 0
  ELSE 10 * Atoi(SubSeq(s, 1, Len(s) - 1)) + (Index("0123456789", Char(s, Len(s)), 1) - 1)

\* numeric-aware order: runs of digits compare as numbers, the rest by byte
RECURSIVE NaturalLess(_, _)
NaturalLess(s, t) ==
  IF Len(t) = 0 THEN FALSE
  ELSE IF Len(s) = 0 THEN TRUE
  ELSE LET ds == DigitRun(s)
           dt == DigitRun(t)
       IN  IF ds > 0 /\ dt > 0
           THEN LET ns == Atoi(SubSeq(s, 1, ds))
                    nt == Atoi(SubSeq(t, 1, dt))
                IN  IF ns # nt THEN ns < nt
                    ELSE NaturalLess(SubSeq(s, ds + 1, Len(s)), SubSeq(t, dt + 1, Len(t)))
           ELSE IF Char(s, 1) = Char(t, 1)
                THEN NaturalLess(SubSeq(s, 2, Len(s)), SubSeq(t, 2, Len(t)))
           ELSE Rank(Char(s, 1)) < Rank(Char(t, 1))

VerSort(f1, f2) == NaturalLess(f1.fi.name, f2.fi.name)

\* SortFunc: the comparator a name stands for
Fn(fn, f1, f2) ==
  IF fn = "ModSort" THEN ModSort(f1, f2)
  ELSE IF fn = "CTimeSort" THEN CTimeSort(f1, f2)
  ELSE IF fn = "DirSort" THEN DirSort(f1, f2)
  ELSE IF fn = "VerSort" THEN VerSort(f1, f2)
  ELSE IF fn = "SizeSort" THEN SizeSort(f1, f2)
  ELSE NameSort(f1, f2)

\* SortFn with the cases of DirSort and VerSort in the other order
SortFnVerFirst(o) ==
  IF o.ModSort THEN "ModSort"
  ELSE IF o.CTimeSort THEN "CTimeSort"
  ELSE IF o.VerSort THEN "VerSort"
  ELSE IF o.DirSort THEN "DirSort"
  ELSE IF o.SizeSort THEN "SizeSort"
  ELSE IF o.NameSort THEN "NameSort"
  ELSE "nil"

\* the switch of Node.sort: the comparator the options select, "nil" if none
SortFn(o) ==
  IF o.ModSort THEN "ModSort"
  ELSE IF o.CTimeSort THEN "CTimeSort"
  ELSE IF o.DirSort THEN "DirSort"
  ELSE IF o.VerSort THEN "VerSort"
  ELSE IF o.SizeSort THEN "SizeSort"
  ELSE IF o.NameSort THEN "NameSort"
  ELSE "nil"

\* ByFunc.Less, and under sort.Reverse the same with its arguments swapped
Less(fn, reverse, f1, f2) == IF reverse THEN Fn(fn, f2, f1) ELSE Fn(fn, f1, f2)

\* one pass of the insertion sort: x moves left while it is less than its
\* left neighbour
RECURSIVE Insert(_, _, _, _)
Insert(sorted, x, fn, reverse) ==
  IF sorted = <<>> \/ ~Less(fn, reverse, x, sorted[Len(sorted)])
  THEN Append(sorted, x)
  ELSE Append(Insert(Front(sorted), x, fn, reverse), sorted[Len(sorted)])

\* sort.Sort on a slice short enough that it is sorted by insertion
RECURSIVE Sort(_, _, _)
Sort(nodes, fn, reverse) ==
  IF nodes = <<>> THEN <<>>
  ELSE Insert(Sort(Front(nodes), fn, reverse), nodes[Len(nodes)], fn, reverse)

\* Node.sort
sort(nodes) ==
  LET fn == SortFn(opts) IN
  IF fn # "nil" THEN Sort(nodes, fn, opts.ReverSort) ELSE nodes

-----------------------------------------------------------------------------
(* Node.Visit *)

\* Rejects with the match not negated
RejectsOnMatch(re, name) == opts.Pattern # "" /\ re.ok /\ MatchString(re, name)

\* whether the include pattern rejects name: it is set, it compiles and it
\* does not match
Rejects(re, name) == opts.Pattern # "" /\ re.ok /\ ~MatchString(re, name)

\* whether the exclude pattern rejects name: it is set, it compiles and it
\* matches
IRejects(re, name) == opts.IPattern # "" /\ re.ok /\ MatchString(re, name)

\* Filtered without the test that the child has no error
FilteredFailedToo(nnode, name, rePrefix) ==
  /\ ~IsDir(nnode.fi)
  /\ \/ opts.DirsOnly
     \/ Rejects(Compile(rePrefix \o opts.Pattern), name)
     \/ IRejects(Compile(rePrefix \o opts.IPattern), name)

\* the "continue"s of lines 119-142: whether the visited child nnode, made
\* for the entry name, is dropped instead of appended
Filtered(nnode, name, rePrefix) ==
  /\ nnode.err = ""
  /\ ~IsDir(nnode.fi)
  /\ \/ opts.DirsOnly
     \/ Rejects(Compile(rePrefix \o opts.Pattern), name)
     \/ IRejects(Compile(rePrefix \o opts.IPattern), name)

\* what Visit returns, with the node and the visited paths as it leaves them
Returns(node, vp, d, f) == [node |-> node, vpaths |-> vp, dirs |-> d, files |-> f]

\* lines 84-87: the visited paths with the node's own
Visited(abs, vp) == IF abs.ok THEN vp \cup {Clean(abs.path)} ELSE vp

\* VisitName with the counts of a dropped child added all the same
VisitNameCountsDropped(node, name, acc, v) ==
  IF Filtered(v.node, name, IF opts.IgnoreCase THEN "(?i)" ELSE "")
  THEN [acc EXCEPT !.vpaths = v.vpaths, !.dirs = @ + v.dirs, !.files = @ + v.files]
  ELSE Returns([acc.node EXCEPT !.nodes = Append(@, v.node)], v.vpaths,
               acc.dirs + v.dirs, acc.files + v.files)

\* lines 146-150: acc as the loop left it, sorted and counted
VisitEnd(acc) ==
  Returns([acc.node EXCEPT !.nodes = IF ~opts.NoSort THEN sort(@) ELSE @],
          acc.vpaths, acc.dirs + 1, acc.files)

RECURSIVE Visit(_, _), VisitStat(_, _, _), VisitDir(_, _, _), VisitNames(_, _, _),
          VisitName(_, _, _, _)
\* Node.Visit on node, the shared map holding vp
Visit(node, vp) == VisitStat(node, Visited(Abs(node.path), vp), Stat(node.path))

\* lines 89-102, st being what Stat returned
VisitStat(node, vp, st) ==
  IF ~st.ok THEN Returns([node EXCEPT !.err = st.err], vp, 0, 0)
  ELSE IF ~IsDir(st.fi) THEN Returns([node EXCEPT !.fi = st.fi, !.hasInfo = TRUE], vp, 0, 1)
  ELSE IF opts.DeepLevel > 0 /\ opts.DeepLevel <= node.depth
       THEN Returns([node EXCEPT !.fi = st.fi, !.hasInfo = TRUE], vp, 1, 0)
  ELSE VisitDir([node EXCEPT !.fi = st.fi, !.hasInfo = TRUE], vp, ReadDir(node.path))

\* lines 103-150, rd being what ReadDir returned
VisitDir(node, vp, rd) ==
  IF rd.err # "" THEN Returns([node EXCEPT !.err = rd.err], vp, 0, 0)
  ELSE VisitEnd(VisitNames(node, rd.names, Returns(node, vp, 0, 0)))

\* the loop of lines 108-145 over the names left, acc holding the node, the
\* visited paths and the counts so far
VisitNames(node, names, acc) ==
  IF names = <<>> THEN acc
  ELSE IF ~opts.All /\ HasPrefix(Head(names), ".")
       THEN VisitNames(node, Tail(names), acc)
  ELSE VisitNames(node, Tail(names),
                  VisitName(node, Head(names), acc,
                            Visit(Child(acc.node, Head(names)), acc.vpaths)))

\* lines 118-144: v is what nnode.Visit returned for the entry name
VisitName(node, name, acc, v) ==
  IF Filtered(v.node, name, IF opts.IgnoreCase THEN "(?i)" ELSE "")
  THEN [acc EXCEPT !.vpaths = v.vpaths]
  ELSE Returns([acc.node EXCEPT !.nodes = Append(@, v.node)], v.vpaths,
               acc.dirs + v.dirs, acc.files + v.files)

-----------------------------------------------------------------------------
(* formatBytes *)

KiB == 1024
MiB == 1048576
GiB == 1073741824

\* q + r / d rounded to the nearest integer, a tie to the even one, for
\* 0 <= r < d: what %.0f and %.01f do with a value float64 holds exactly
RoundHalfEven(q, r, d) ==
  IF 2 * r < d THEN q
  ELSE IF 2 * r > d THEN q + 1
  ELSE IF q % 2 = 0 THEN q ELSE q + 1

\* 10 * r as a quotient and a remainder of unit, for 0 <= r < unit and a unit
\* that is 1 or a multiple of 1024, without a product above 2^31
TenTimes(r, unit) ==
  IF unit = 1 THEN [q |-> 10 * r, r |-> 0]
  ELSE LET u1 == unit \div 1024
           hi == 10 * (r \div 1024) + (10 * (r % 1024)) \div 1024
           lo == (10 * (r % 1024)) % 1024
       IN  [q |-> hi \div u1, r |-> (hi % u1) * 1024 + lo]

\* fmt.Sprintf("%.01f", i / unit)
OneDecimal(i, unit) ==
  LET x == TenTimes(i % unit, unit)
      t == RoundHalfEven(10 * (i \div unit) + x.q, x.r, unit)
  IN  ToString(t \div 10) \o "." \o ToString(t % 10)

\* fmt.Sprintf("%.0f", i / unit)
NoDecimal(i, unit) == ToString(RoundHalfEven(i \div unit, i % unit, unit))

\* the unit the switch of formatBytes picks: its divisor and its suffix
Unit(i) ==
  IF i > GiB THEN [div |-> GiB, eFmt |-> "G"]
  ELSE IF i > MiB THEN [div |-> MiB, eFmt |-> "M"]
  ELSE IF i > KiB THEN [div |-> KiB, eFmt |-> "K"]
  ELSE [div |-> 1, eFmt |-> ""]

formatBytes(i) ==
  LET u == Unit(i) IN
  IF u.eFmt = "" THEN NoDecimal(i, 1)
  ELSE IF i \div u.div >= 10 THEN NoDecimal(i, u.div) \o u.eFmt
  ELSE OneDecimal(i, u.div) \o u.eFmt

-----------------------------------------------------------------------------
(* Node.Print *)

\* the two places print writes to
OutFile == "opts.OutFile"
Stdout == "os.Stdout"

\* fmt.Fprintf(w, ...): one write of text to w
Write(out, w, text) == Append(out, [sink |-> w, text |-> text])

\* the %4s and %11d of Sprintf: s right-justified in a field of width w
RECURSIVE PadLeft(_, _)
PadLeft(s, w) == IF Len(s) >= w THEN s ELSE PadLeft(" " \o s, w)

\* strings.Join
RECURSIVE JoinStrings(_, _)
JoinStrings(a, sep) ==
  IF a = <<>> THEN ""
  ELSE IF Len(a) = 1 THEN a[1]
  ELSE a[1] \o sep \o JoinStrings(Tail(a), sep)

RECURSIVE dirRecursiveSize(_)
dirRecursiveSize(node) ==
  LET RECURSIVE Sum(_)
      Sum(i) ==
        IF i > Len(node.nodes) THEN 0
        ELSE LET nnode == node.nodes[i] IN
             (IF nnode.err # "" THEN 0
              ELSE IF ~IsDir(nnode.fi) THEN nnode.fi.size
              ELSE dirRecursiveSize(nnode)) + Sum(i + 1)
  IN  Sum(1)

\* the size of lines 239-241 and 260-262 as the column shows it
SizeColumn(size) ==
  IF opts.UnitSize THEN PadLeft(formatBytes(size), 4) ELSE PadLeft(ToString(size), 11)

\* the size column of lines 236-244 and 256-265, the only column modelled:
\* the others read syscall.Stat_t, the user database and the clock's format
Props(node) ==
  IF opts.ByteSize \/ opts.UnitSize
  THEN <<SizeColumn(IF IsDir(node.fi) THEN dirRecursiveSize(node) ELSE node.fi.size)>>
  ELSE <<>>

\* lines 250-252 and 267-269
WriteProps(out, props) ==
  IF Len(props) > 0 THEN Write(out, OutFile, "[" \o JoinStrings(props, " ") \o "]  ") ELSE out

\* the error line's text: the second piece of the error split at ": "
ShortErrorOf(err, msgs) == IF Len(msgs) > 1 THEN msgs[2] ELSE err

ShortError(err) == ShortErrorOf(err, Split(err, ": "))

\* lines 272-281
Name(node) ==
  IF opts.Quotes
  THEN "\"" \o (IF node.depth = 0 \/ opts.FullPath THEN PathString(node.path) ELSE node.fi.name) \o "\""
  ELSE IF node.depth = 0 \/ opts.FullPath THEN PathString(node.path) ELSE node.fi.name

\* lines 288-291
Vtarget(node, rl) == IF rl.ok THEN rl.target ELSE node.path

\* lines 292-295
TargetPath(ev, vtarget) == IF ev.ok THEN ev.path ELSE vtarget

\* lines 305-309: the node with the children of a fresh Visit of the target
Adopt(node, name, inf) == [node |-> [node EXCEPT !.nodes = inf.node.nodes], name |-> name, vpaths |-> inf.vpaths]

\* lines 300-314: name carries the arrow already, fi and ok are what Stat
\* returned for the target
Follow(node, name, vp, targetPath, st, abs) ==
  IF ~(opts.FollowLink /\ abs.ok /\ st.ok /\ IsDir(st.fi))
  THEN [node |-> node, name |-> name, vpaths |-> vp]
  ELSE IF Clean(abs.path) \notin vp
       THEN Adopt(node, name, Visit([New(targetPath) EXCEPT !.fi = st.fi, !.hasInfo = TRUE], vp))
  ELSE [node |-> node, name |-> name \o " [recursive, not followed]", vpaths |-> vp]

Resolve(node, name, vp, vtarget, targetPath) ==
  Follow(node, name \o " -> " \o PathString(vtarget), vp, targetPath, Stat(targetPath), Abs(targetPath))

Target(node, name, vp, vtarget) ==
  Resolve(node, name, vp, vtarget, TargetPath(EvalSymlinks(node.path), vtarget))

\* what the symlink block of lines 287-315 makes of a node and its name
Symlink(node, name, vp) ==
  IF node.fi.mode # "link" THEN [node |-> node, name |-> name, vpaths |-> vp]
  ELSE Target(node, name, vp, Vtarget(node, Readlink(node.path)))

\* the glyph of lines 321-330 for child i of n, if any
Glyph(out, indent, last) ==
  IF opts.NoIndent THEN out
  ELSE IF last THEN Write(out, OutFile, indent \o "+-- ")
  ELSE Write(out, OutFile, indent \o "|-- ")

\* the value of add after lines 321-330
Add(add, last) == IF opts.NoIndent THEN "" ELSE IF last THEN "    " ELSE add

RECURSIVE print(_, _, _, _), printName(_, _, _), printNodes(_, _, _, _, _, _),
          printNext(_, _, _, _, _)
\* Node.print: the node as print leaves it, the visited paths and the writes
print(node, indent, vp, out) ==
  IF node.err # ""
  THEN [node |-> node, vpaths |-> vp,
        out |-> Write(out, Stdout, PathString(node.path) \o " [" \o ShortError(node.err) \o "]\n")]
  ELSE printName(Symlink(node, Name(node), vp), indent, WriteProps(out, Props(node)))

\* lines 318-333: sl holds the node, its name and the visited paths after the
\* symlink block
printName(sl, indent, out) ==
  printNodes(sl.node, 1, "|   ", indent, sl.vpaths, Write(out, OutFile, sl.name \o "\n"))

\* the loop of lines 320-332 from child i on, add as the loop before left it
printNodes(node, i, add, indent, vp, out) ==
  IF i > Len(node.nodes) THEN [node |-> node, vpaths |-> vp, out |-> out]
  ELSE printNext(node, i, Add(add, i = Len(node.nodes)), indent,
                 print(node.nodes[i], indent \o Add(add, i = Len(node.nodes)), vp,
                       Glyph(out, indent, i = Len(node.nodes))))

\* the loop after child i, p being what its print left
printNext(node, i, add, indent, p) ==
  printNodes([node EXCEPT !.nodes[i] = p.node], i + 1, add, indent, p.vpaths, p.out)

-----------------------------------------------------------------------------
(* The inputs *)

\* an Options value with every flag off
NoOptions ==
  [All |-> FALSE, DirsOnly |-> FALSE, FullPath |-> FALSE, IgnoreCase |-> FALSE,
   FollowLink |-> FALSE, DeepLevel |-> 0, Pattern |-> "", IPattern |-> "",
   ByteSize |-> FALSE, UnitSize |-> FALSE, Quotes |-> FALSE,
   NoSort |-> FALSE, VerSort |-> FALSE, ModSort |-> FALSE, DirSort |-> FALSE,
   NameSort |-> FALSE, SizeSort |-> FALSE, CTimeSort |-> FALSE, ReverSort |-> FALSE,
   NoIndent |-> FALSE]

PatGo == "\\.go$"
PatBad == "("

ErrStat(e) == [e EXCEPT !.statErr = TRUE]
ErrList(e) == [e EXCEPT !.listErr = TRUE]

\* The file system of the traversal families.  /r holds b.py, a.go, the
\* hidden directory .h, the directory d and, when l is an entry, l; /r/d
\* holds e.go and B.GO; /x lies outside /r; /t is a link to /r.  The entries
\* a, d, e and l are the ones that vary.
FsOf(a, d, e, l) ==
  (<<"r">> :> DirEntry(<<"b.py", "a.go", ".h", "d">>
                        \o (IF l.kind = "none" THEN <<>> ELSE <<"l">>)))
  @@ (<<"r", "b.py">> :> FileEntry(10240, 1, 1))
  @@ (<<"r", "a.go">> :> a)
  @@ (<<"r", ".h">> :> DirEntry(<<"k">>))
  @@ (<<"r", ".h", "k">> :> FileEntry(5, 1, 1))
  @@ (<<"r", "d">> :> d)
  @@ (<<"r", "d", "e.go">> :> e)
  @@ (<<"r", "d", "e.go", "g.py">> :> (IF e.kind = "dir" THEN FileEntry(1023, 1, 1) ELSE NoEntry))
  @@ (<<"r", "d", "B.GO">> :> FileEntry(1073741824, 1, 1))
  @@ (<<"r", "l">> :> l)
  @@ (<<"x">> :> DirEntry(<<"f">>))
  @@ (<<"x", "f">> :> FileEntry(0, 1, 1))
  @@ (<<"t">> :> LinkEntry(<<"r">>))

FileA == FileEntry(1536, 1, 1)
DirD == DirEntry(<<"e.go", "B.GO">>)
FileE == FileEntry(7, 1, 1)
DirE == DirEntry(<<"g.py">>)

\* The file system of the sort family: one directory /s whose four entries
\* every policy orders differently, listed in the order list
SortFs(list) ==
  (<<"s">> :> DirEntry(list))
  @@ (<<"s", "f10">> :> FileEntry(1, 2, 4))
  @@ (<<"s", "f2">> :> FileEntry(4, 1, 3))
  @@ (<<"s", "d1">> :> [DirEntry(<<>>) EXCEPT !.size = 3, !.mtime = 4, !.ctime = 1])
  @@ (<<"s", "F3">> :> FileEntry(2, 3, 2))

SortListings ==
  { <<"f10", "f2", "d1", "F3">>, <<"f2", "F3", "f10", "d1">>,
    <<"d1", "f10", "F3", "f2">>, <<"F3", "d1", "f2", "f10">> }

\* the byte counts formatBytes is given
FormatInputs ==
  (0..MaxSmallBytes)
  \cup { t + k : t \in {KiB, 10 * KiB, MiB, 10 * MiB, GiB},
                   k \in (0 - ThresholdSpread)..ThresholdSpread }
  \cup {1023, 1536, 10199, 10200, 10752, 11776, 1610612736, 2147483647}

-----------------------------------------------------------------------------
(* The state machine *)

\* the variables of a family that are the same in all of them
Start(phase) ==
  /\ root = New(rootPath)
  /\ vpaths = {}
  /\ dirs = 0
  /\ files = 0
  /\ output = <<>>
  /\ prints = 0
  /\ result = ""
  /\ pc = phase

\* filters and failing entries, no link followed
InitFilters ==
  /\ \E a \in {FileA, ErrStat(FileA)}, d \in {DirD, ErrList(DirD), ErrStat(DirD)},
        e \in {FileE, DirE} : fs = FsOf(a, d, e, NoEntry)
  /\ rootPath = <<"r">>
  /\ \E all \in BOOLEAN, dirsOnly \in BOOLEAN, ignoreCase \in BOOLEAN, noIndent \in BOOLEAN,
        deep \in 0..MaxDeepLevel, pattern \in {"", PatGo, PatBad}, ipattern \in {"", PatGo, PatBad} :
        opts = [NoOptions EXCEPT !.All = all, !.DirsOnly = dirsOnly, !.IgnoreCase = ignoreCase,
                                 !.NoIndent = noIndent, !.DeepLevel = deep,
                                 !.Pattern = pattern, !.IPattern = ipattern]
  /\ bytes = 0
  /\ Start("new")

\* links: to the directory that holds them, to a directory outside the root,
\* to a hidden directory, to nothing, to themselves; a root reached through
\* the link /t
InitLinks ==
  /\ \E e \in {FileE, DirE, LinkEntry(<<"r", "d">>), LinkEntry(<<"x">>)},
        l \in {NoEntry, LinkEntry(<<"r">>), LinkEntry(<<"r", ".h">>),
               LinkEntry(<<"zz">>), LinkEntry(<<"r", "l">>)} :
        fs = FsOf(FileA, DirD, e, l)
  /\ rootPath \in {<<"r">>, <<"t", "d">>}
  /\ \E all \in BOOLEAN, followLink \in BOOLEAN, noIndent \in BOOLEAN, deep \in 0..MaxDeepLevel :
        opts = [NoOptions EXCEPT !.All = all, !.FollowLink = followLink,
                                 !.NoIndent = noIndent, !.DeepLevel = deep]
  /\ bytes = 0
  /\ Start("new")

\* every combination of the sort flags
InitSort ==
  /\ \E list \in SortListings : fs = SortFs(list)
  /\ rootPath = <<"s">>
  /\ \E noSort \in BOOLEAN, verSort \in BOOLEAN, modSort \in BOOLEAN, dirSort \in BOOLEAN,
        nameSort \in BOOLEAN, sizeSort \in BOOLEAN, cTimeSort \in BOOLEAN, reverSort \in BOOLEAN :
        opts = [NoOptions EXCEPT !.NoSort = noSort, !.VerSort = verSort, !.ModSort = modSort,
                                 !.DirSort = dirSort, !.NameSort = nameSort,
                                 !.SizeSort = sizeSort, !.CTimeSort = cTimeSort,
                                 !.ReverSort = reverSort]
  /\ bytes = 0
  /\ Start("new")

\* the size column, quoting and full paths
InitColumns ==
  /\ fs = FsOf(FileA, DirD, DirE, LinkEntry(<<"x">>))
  /\ rootPath = <<"r">>
  /\ \E byteSize \in BOOLEAN, unitSize \in BOOLEAN, quotes \in BOOLEAN, fullPath \in BOOLEAN,
        noIndent \in BOOLEAN, followLink \in BOOLEAN :
        opts = [NoOptions EXCEPT !.ByteSize = byteSize, !.UnitSize = unitSize, !.Quotes = quotes,
                                 !.FullPath = fullPath, !.NoIndent = noIndent,
                                 !.FollowLink = followLink]
  /\ bytes = 0
  /\ Start("new")

\* formatBytes on its own
InitFormat ==
  /\ fs = SortFs(<<>>)
  /\ rootPath = <<"s">>
  /\ opts = NoOptions
  /\ bytes \in FormatInputs
  /\ Start("format")

Init == InitFilters \/ InitLinks \/ InitSort \/ InitColumns \/ InitFormat

\* root.Visit(opts)
CallVisit ==
  /\ pc = "new"
  /\ LET r == Visit(root, vpaths) IN
       /\ root' = r.node
       /\ vpaths' = r.vpaths
       /\ dirs' = r.dirs
       /\ files' = r.files
  /\ pc' = "visited"
  /\ UNCHANGED <<fs, rootPath, opts, output, prints, bytes, result>>

\* root.Print(opts)
CallPrint ==
  /\ pc \in {"visited", "printed"}
  /\ prints < MaxPrints
  /\ LET p == print(root, "", vpaths, output) IN
       /\ root' = p.node
       /\ vpaths' = p.vpaths
       /\ output' = p.out
  /\ prints' = prints + 1
  /\ pc' = "printed"
  /\ UNCHANGED <<fs, rootPath, opts, dirs, files, bytes, result>>

\* formatBytes(bytes)
CallFormatBytes ==
  /\ pc = "format"
  /\ result' = formatBytes(bytes)
  /\ pc' = "formatted"
  /\ UNCHANGED <<fs, rootPath, opts, root, vpaths, dirs, files, output, prints, bytes>>

Next == CallVisit \/ CallPrint \/ CallFormatBytes

Spec == Init /\ [][Next]_vars

-----------------------------------------------------------------------------
(* What the properties are stated with *)

\* every node of the tree below and including n
RECURSIVE NodesOf(_)
NodesOf(n) == {n} \cup UNION { NodesOf(n.nodes[i]) : i \in 1..Len(n.nodes) }

RECURSIVE SumSeq(_)
SumSeq(q) == IF q = <<>> THEN 0 ELSE Head(q) + SumSeq(Tail(q))

\* a node Visit statted, found to be a directory, and listed
Listed(n) ==
  /\ n.err = ""
  /\ n.hasInfo
  /\ IsDir(n.fi)
  /\ ~(opts.DeepLevel > 0 /\ opts.DeepLevel <= n.depth)

\* a node Visit statted and found not to be a directory
PlainFile(n) == n.err = "" /\ n.hasInfo /\ ~IsDir(n.fi)

\* <<dirs, files>> as a Visit of a node at n's path and depth returns them
CountsOf(n) ==
  LET v == Visit([New(n.path) EXCEPT !.depth = n.depth], {}) IN <<v.dirs, v.files>>

\* the names Visit looks at in the listing of n: all of them, or the ones
\* that do not start with "."
Visible(name) == opts.All \/ ~HasPrefix(name, ".")

Listing(n) == SelectSeq(ReadDir(n.path).names, Visible)

\* what Stat says of the entry name of n
EntryStat(n, name) == Stat(Join(n.path, name))

Attached(n, name) == \E i \in 1..Len(n.nodes) : n.nodes[i].path = Join(n.path, name)

CasePrefix == IF opts.IgnoreCase THEN "(?i)" ELSE ""

Compiles(pattern) == Compile(CasePrefix \o pattern).ok

\* a name matches a pattern under the configured case sensitivity; nothing
\* matches a pattern that does not compile
Matches(pattern, name) ==
  Compiles(pattern) /\ MatchString(Compile(CasePrefix \o pattern), name)

\* the filters a file's name has to pass, a pattern that does not compile
\* filtering nothing
Survives(name) ==
  /\ ~opts.DirsOnly
  /\ opts.Pattern = "" \/ ~Compiles(opts.Pattern) \/ Matches(opts.Pattern, name)
  /\ opts.IPattern = "" \/ ~Matches(opts.IPattern, name)

\* the names of the listing of n that are files passing the filters
KeptFiles(n) ==
  { name \in { Listing(n)[i] : i \in 1..Len(Listing(n)) } :
      /\ EntryStat(n, name).ok
      /\ ~IsDir(EntryStat(n, name).fi)
      /\ Survives(name) }

\* <<dirs, files>> as the counting rule gives them for a listed node
CountRule(n) ==
  << 1 + SumSeq([i \in 1..Len(n.nodes) |-> CountsOf(n.nodes[i])[1]]),
     Cardinality(KeptFiles(n))
       + SumSeq([i \in 1..Len(n.nodes) |->
                   IF n.nodes[i].hasInfo /\ IsDir(n.nodes[i].fi)
                   THEN CountsOf(n.nodes[i])[2] ELSE 0]) >>

-----------------------------------------------------------------------------
(* C1 *)

\* C1: a Visit of a directory that stats and lists returns, as its file
\* count, the number of its non-directory entries that pass the hidden,
\* directories-only, include and exclude filters plus the file counts of its
\* attached subdirectories, and as its directory count 1 plus the directory
\* counts of its attached children; the attached non-directory children are
\* the entries that pass, so that a filtered entry adds to neither count.
C1_VisitCounts ==
  pc = "visited" =>
    /\ Listed(root) => <<dirs, files>> = CountRule(root)
    /\ \A n \in NodesOf(root) :
         Listed(n) =>
           /\ CountsOf(n) = CountRule(n)
           /\ { n.nodes[i].path : i \in { j \in 1..Len(n.nodes) : PlainFile(n.nodes[j]) } }
                = { Join(n.path, name) : name \in KeptFiles(n) }

\* a Visit that counted two directories and a file below the root and
\* dropped a.go for the exclude pattern
C1_Witness ==
  /\ pc = "visited"
  /\ Listed(root)
  /\ rootPath = <<"r">>
  /\ opts.IPattern = PatGo
  /\ EntryStat(root, "a.go").ok
  /\ ~Attached(root, "a.go")
  /\ dirs >= 3
  /\ files >= 2

-----------------------------------------------------------------------------
(* C4 *)

\* the include and exclude patterns as the claim reads them: a name has to
\* match the include pattern whenever one is set
SurvivesMatching(name) ==
  /\ ~opts.DirsOnly
  /\ opts.Pattern = "" \/ Matches(opts.Pattern, name)
  /\ opts.IPattern = "" \/ ~Matches(opts.IPattern, name)

\* the entries of the listing of n for which pass decides: a file entry is
\* attached only if it passes, a directory entry is attached
FilterRule(n, pass(_)) ==
  \A i \in 1..Len(Listing(n)) :
    LET name == Listing(n)[i]
        st == EntryStat(n, name)
    IN  /\ st.ok /\ ~IsDir(st.fi) /\ Attached(n, name) => pass(name)
        /\ st.ok /\ IsDir(st.fi) => Attached(n, name)

\* C4 as stated: Visit attaches a statted non-directory entry only if its
\* name matches the include pattern, when one is set, and does not match the
\* exclude pattern, when one is set, and none under directories-only; every
\* directory entry is attached whatever these three say.
C4_FiltersAsStated ==
  pc = "visited" => \A n \in NodesOf(root) : Listed(n) => FilterRule(n, SurvivesMatching)

\* C4 as amended: the same, a pattern counting as set only when it compiles:
\* a file is attached only if it matches the include pattern, when one is set
\* and compiles, and does not match the exclude pattern, when one is set and
\* compiles, and none under directories-only; every directory entry is
\* attached.
C4_FiltersCompiled ==
  pc = "visited" => \A n \in NodesOf(root) : Listed(n) => FilterRule(n, Survives)

\* a Visit under an include pattern that compiles, which kept a.go, dropped
\* b.py and kept the directory d, whose name does not match
C4_Witness ==
  /\ pc = "visited"
  /\ rootPath = <<"r">>
  /\ Listed(root)
  /\ opts.Pattern = PatGo
  /\ EntryStat(root, "a.go").ok
  /\ Attached(root, "a.go")
  /\ ~Attached(root, "b.py")
  /\ EntryStat(root, "d").ok
  /\ Attached(root, "d")

-----------------------------------------------------------------------------
(* C5 *)

\* the sort flags from the highest priority to the lowest
Priority == <<"ModSort", "CTimeSort", "DirSort", "VerSort", "SizeSort", "NameSort">>

\* the enabled flag of the highest priority, "nil" when none is enabled
Policy ==
  IF \E k \in 1..Len(Priority) : opts[Priority[k]]
  THEN Priority[CHOOSE k \in 1..Len(Priority) :
                  /\ opts[Priority[k]]
                  /\ \A j \in 1..(k - 1) : ~opts[Priority[j]]]
  ELSE "nil"

\* no child comes before one the policy puts strictly before it; reversed,
\* none comes after one
Ordered(nodes, policy, reverse) ==
  \A i \in 1..Len(nodes) : \A j \in (i + 1)..Len(nodes) :
    IF reverse THEN ~Fn(policy, nodes[i], nodes[j]) ELSE ~Fn(policy, nodes[j], nodes[i])

\* the children are the attached entries in the order of the listing
InListingOrder(n) ==
  [i \in 1..Len(n.nodes) |-> n.nodes[i].path]
    = [i \in 1..Len(SelectSeq(Listing(n), LAMBDA name : Attached(n, name))) |->
         Join(n.path, SelectSeq(Listing(n), LAMBDA name : Attached(n, name))[i])]

\* C5: the children of every visited directory are ordered by one policy,
\* the enabled one of the highest priority (mtime, change time, directory
\* first, version, size, name); the reverse flag turns that policy's order
\* round and chooses no other; under no-sort, and with no sort flag at all,
\* the children stay in listing order.
C5_SortPolicy ==
  pc = "visited" =>
    \A n \in NodesOf(root) :
      Listed(n) =>
        IF opts.NoSort \/ Policy = "nil" THEN InListingOrder(n)
        ELSE Ordered(n.nodes, Policy, opts.ReverSort)

\* a Visit with the mtime and the size flag set and the order reversed: d1,
\* the latest modified, comes first and f2, the earliest, last
C5_Witness ==
  /\ pc = "visited"
  /\ rootPath = <<"s">>
  /\ opts.ModSort /\ opts.SizeSort /\ opts.ReverSort /\ ~opts.NoSort
  /\ Len(root.nodes) = 4
  /\ root.nodes[1].fi.name = "d1"
  /\ root.nodes[4].fi.name = "f2"

-----------------------------------------------------------------------------
(* C7 *)

\* what a Visit of the entry name of n returns
EntryVisit(n, name) == Visit(Child(n, name), {})

\* C7: an entry whose Stat or ReadDir fails is attached once, with its error
\* and without children, whatever directories-only and the patterns say; it
\* adds nothing to its parent's counts; and every entry listed after it is
\* visited and attached, or dropped by the filters, as a Visit of that entry
\* alone decides.
C7_FailedEntry ==
  pc = "visited" =>
    \A n \in NodesOf(root) :
      Listed(n) =>
        \A i \in 1..Len(Listing(n)) :
          LET v == EntryVisit(n, Listing(n)[i]) IN
          v.node.err # "" =>
            /\ v.node.nodes = <<>>
            /\ Cardinality({ k \in 1..Len(n.nodes) : n.nodes[k] = v.node }) = 1
            /\ CountsOf(n)
                 = << 1 + SumSeq([k \in 1..Len(n.nodes) |->
                                    IF n.nodes[k] = v.node THEN 0 ELSE CountsOf(n.nodes[k])[1]]),
                      SumSeq([k \in 1..Len(n.nodes) |->
                                IF n.nodes[k] = v.node THEN 0 ELSE CountsOf(n.nodes[k])[2]]) >>
            /\ \A j \in (i + 1)..Len(Listing(n)) :
                 LET w == EntryVisit(n, Listing(n)[j]) IN
                 IF PlainFile(w.node) /\ ~Survives(Listing(n)[j])
                 THEN ~Attached(n, Listing(n)[j])
                 ELSE \E k \in 1..Len(n.nodes) : n.nodes[k] = w.node

\* a Visit under directories-only in which the Stat of a.go and the ReadDir
\* of d failed: both are attached with their errors, d after a.go
C7_Witness ==
  /\ pc = "visited"
  /\ rootPath = <<"r">>
  /\ opts.DirsOnly
  /\ \E i \in 1..Len(root.nodes) : \E j \in (i + 1)..Len(root.nodes) :
       /\ root.nodes[i].path = <<"r", "a.go">>
       /\ ~root.nodes[i].hasInfo
       /\ root.nodes[i].err # ""
       /\ root.nodes[j].path = <<"r", "d">>
       /\ root.nodes[j].hasInfo
       /\ root.nodes[j].err # ""
       /\ root.nodes[j].nodes = <<>>

-----------------------------------------------------------------------------
(* C2 *)

\* every node of the tree below and including n with the number of levels it
\* lies below n, n itself lying l levels down
RECURSIVE Levels(_, _)
Levels(n, l) == {<<n, l>>} \cup UNION { Levels(n.nodes[i], l + 1) : i \in 1..Len(n.nodes) }

\* C2: with DeepLevel = k > 0, whatever the other options, follow-symlinks
\* too, no node Print renders lies more than k levels below the root, and a
\* directory k levels below the root counts as one directory and has no
\* rendered children.
C2_DepthLimit ==
  (pc = "printed" /\ opts.DeepLevel > 0) =>
    \A x \in Levels(root, 0) :
      /\ x[2] <= opts.DeepLevel
      /\ (x[2] = opts.DeepLevel /\ x[1].err = "" /\ IsDir(x[1].fi)) =>
           /\ x[1].nodes = <<>>
           /\ CountsOf(x[1]) = <<1, 0>>

-----------------------------------------------------------------------------
(* C3 *)

\* a link of the tree whose target is the directory that holds it
SelfLink(n) ==
  /\ n.err = ""
  /\ n.fi.mode = "link"
  /\ Len(n.path) > 1
  /\ EvalSymlinks(n.path).ok
  /\ EvalSymlinks(Front(n.path)).ok
  /\ EvalSymlinks(n.path).path = EvalSymlinks(Front(n.path)).path

\* the line of a link without its newline: its name, the arrow, its target
LinkLine(n) == Name(n) \o " -> " \o PathString(Vtarget(n, Readlink(n.path)))

\* the number of writes of the text
Written(text) == Cardinality({ i \in 1..Len(output) : output[i].text = text })

\* C3: under follow-symlinks a link to the directory that holds it is
\* rendered once, with " [recursive, not followed]" after its name, and
\* adopts no children.
C3_SelfLinkOnce ==
  (pc = "printed" /\ prints = 1 /\ opts.FollowLink) =>
    \A n \in NodesOf(root) :
      SelfLink(n) =>
        /\ n.nodes = <<>>
        /\ Written(LinkLine(n) \o " [recursive, not followed]\n") = 1
        /\ Written(LinkLine(n) \o "\n") = 0

-----------------------------------------------------------------------------
(* C6 *)

\* the largest unit whose threshold the count reaches
ReachedUnit(i) ==
  IF i >= GiB THEN [div |-> GiB, eFmt |-> "G"]
  ELSE IF i >= MiB THEN [div |-> MiB, eFmt |-> "M"]
  ELSE IF i >= KiB THEN [div |-> KiB, eFmt |-> "K"]
  ELSE [div |-> 1, eFmt |-> ""]

\* C6: formatBytes gives "0" for 0, "1023" for 1023, "1.5K" for 1536, "10K"
\* for 10240 and "1.0G" for 1073741824; a count below 1 KiB is written as a
\* plain integer, any other in the largest unit among G, M and K it reaches,
\* with one decimal below 10 units and none from 10 units on.
C6_FormatBytes ==
  pc = "formatted" =>
    /\ bytes = 0 => result = "0"
    /\ bytes = 1023 => result = "1023"
    /\ bytes = 1536 => result = "1.5K"
    /\ bytes = 10240 => result = "10K"
    /\ bytes = 1073741824 => result = "1.0G"
    /\ bytes < KiB => result = ToString(bytes)
    /\ bytes >= KiB =>
         result = (IF bytes \div ReachedUnit(bytes).div >= 10
                   THEN NoDecimal(bytes, ReachedUnit(bytes).div)
                   ELSE OneDecimal(bytes, ReachedUnit(bytes).div))
                  \o ReachedUnit(bytes).eFmt

-----------------------------------------------------------------------------
(* C8, C9 *)

\* all that was written to a sink, in order
RECURSIVE TextOf(_, _)
TextOf(out, w) ==
  IF out = <<>> THEN ""
  ELSE TextOf(Front(out), w) \o (IF Last(out).sink = w THEN Last(out).text ELSE "")

\* the line of a node after its glyphs, without its newline
LineOf(n) ==
  IF n.err # "" THEN PathString(n.path) \o " [" \o ShortError(n.err) \o "]"
  ELSE IF n.fi.mode = "link" THEN LinkLine(n)
  ELSE Name(n)

\* the lines of the tree below n in depth-first order, the children in their
\* stored order: own is what precedes the name of n, below what precedes the
\* glyph of each of its children
RECURSIVE Rendered(_, _, _), RenderedFrom(_, _, _)
Rendered(n, own, below) == <<own \o LineOf(n)>> \o RenderedFrom(n, 1, below)

RenderedFrom(n, i, below) ==
  IF i > Len(n.nodes) THEN <<>>
  ELSE (IF opts.NoIndent THEN Rendered(n.nodes[i], "", "")
        ELSE IF i = Len(n.nodes)
             THEN Rendered(n.nodes[i], below \o "+-- ", below \o "    ")
        ELSE Rendered(n.nodes[i], below \o "|-- ", below \o "|   "))
       \o RenderedFrom(n, i + 1, below)

\* C8: with no property column, no colour and no followed link, the output
\* sink holds one line for each node of the tree, in depth-first order; a
\* line's name follows the 4 characters of each level above it (for the last
\* child of a directory the corner and, below it, blanks; for any other the
\* branch and, below it, the bar), and nothing under no-indent.
C8_OneLinePerNode ==
  (pc = "printed" /\ prints = 1 /\ ~opts.FollowLink /\ ~opts.ByteSize /\ ~opts.UnitSize) =>
    Split(TextOf(output, OutFile), "\n") = Rendered(root, "", "") \o <<"">>

\* C9: every write of Print goes to opts.OutFile; the line of a node with an
\* error, "<path> [<short-error>]", goes there too, right after the glyphs
\* written for the node, and the node has no children to render.
C9_AllToOutFile ==
  pc = "printed" =>
    /\ \A i \in 1..Len(output) : output[i].sink = OutFile
    /\ \A n \in NodesOf(root) :
         n.err # "" =>
           /\ n.nodes = <<>>
           /\ \E i \in 1..Len(output) :
                /\ output[i] = [sink |-> OutFile, text |-> LineOf(n) \o "\n"]
                /\ (n # root /\ ~opts.NoIndent) =>
                     /\ i > 1
                     /\ output[i - 1].sink = OutFile
                     /\ \/ HasSuffix(output[i - 1].text, "+-- ")
                        \/ HasSuffix(output[i - 1].text, "|-- ")

-----------------------------------------------------------------------------
(* C10 *)

\* C10: Print leaves the tree as Visit built it, under every configuration,
\* and a second Print writes what the first wrote.
C10_PrintLeavesTree ==
  pc = "printed" =>
    /\ root = Visit(New(rootPath), {}).node
    /\ prints = 2 =>
         /\ Len(output) % 2 = 0
         /\ SubSeq(output, 1, Len(output) \div 2)
              = SubSeq(output, Len(output) \div 2 + 1, Len(output))

====
